---- MODULE Spec2Model ----
(***************************************************************************)
(* Model of backend/mqtt_to_mongo.py: the MQTT listener (on_connect,       *)
(* on_message) writing into three MongoDB collections, and the Flask       *)
(* routes reading them.  The listener runs on its own thread, so its       *)
(* handlers interleave with the routes at the granularity of single store  *)
(* operations.                                                             *)
(*                                                                         *)
(* Time is the value datetime.utcnow() returns, counted in ticks of the    *)
(* resolution at which the store keeps datetimes; two reads of the clock   *)
(* may return the same value.  `hours` is restricted to values for which   *)
(* utcnow() - timedelta(hours) is a representable datetime.                *)
(***************************************************************************)
EXTENDS Integers, Sequences, FiniteSets

\* ---- bounds of the model ------------------------------------------------
MaxRecords == 2
MaxClock == 1
TicksPerHour == 1

\* ---- configuration (lines 25-34) ----------------------------------------
TOPIC_SENSORS == "room/sensors"
TOPIC_STATUS == "room/status"
TOPIC_ALERT == "room/alert"
MQTT_BROKER == "localhost"
MONGO_DB == "room_safety"

Topics == {TOPIC_SENSORS, TOPIC_STATUS, TOPIC_ALERT}

VARIABLES
    clock,            \* the value datetime.utcnow() returns now
    subscriptions,    \* the topics the MQTT client is subscribed to
    listener,         \* "running" while loop_forever() runs, "dead" once an exception left a callback
    sensor_readings,  \* db['sensor_readings'], in insertion order
    status_logs,      \* db['status_logs'], in insertion order
    alerts,           \* db['alerts'], in insertion order
    req,              \* the locals of the /api/stats request in flight (pc = "idle": none)
    event             \* the output of the handler that ran last: the listener's log line, or the
                      \* HTTP response (status 0 while the client waits for it)

store == <<sensor_readings, status_logs, alerts>>
vars == <<clock, subscriptions, listener, sensor_readings, status_logs, alerts, req, event>>

\* ---- inbound message payloads -------------------------------------------
\* The bytes of msg.payload, as the text they decode to.
P_READING == "{\"temp\": 20, \"humidity\": 50}"
P_STAMPED == "{\"temp\": 21, \"humidity\": 50, \"timestamp\": -1}"
P_EMPTY == "{}"
P_STATUS == "{\"_id\": 1, \"door\": \"open\", \"occupant_count\": 2}"
P_FIRE == "{\"type\": \"fire\", \"message\": \"smoke detected\"}"
P_BURGLAR == "{\"type\": \"burglar\", \"message\": \"motion\"}"
P_BROKEN == "{temp: 20"
P_LIST == "[20, 50]"

\* The messages the broker delivers: (topic, payload).
Inbound ==
    ({TOPIC_SENSORS} \X {P_READING, P_STAMPED, P_EMPTY, P_BROKEN, P_LIST})
    \cup ({TOPIC_STATUS} \X {P_STATUS, P_BROKEN})
    \cup ({TOPIC_ALERT} \X {P_FIRE, P_BURGLAR, P_LIST})

\* json.loads(msg.payload.decode()): a dict, another JSON value, or an exception.
json_loads(raw) ==
    CASE raw = P_READING -> [kind |-> "dict", doc |-> [temp |-> 20, humidity |-> 50]]
      [] raw = P_STAMPED -> [kind |-> "dict", doc |-> [temp |-> 21, humidity |-> 50, timestamp |-> 0 - 1]]
      [] raw = P_EMPTY -> [kind |-> "dict", doc |-> [k \in {} |-> 0]]
      [] raw = P_STATUS -> [kind |-> "dict", doc |-> [_id |-> <<"key", 1>>, door |-> "open", occupant_count |-> 2]]
      [] raw = P_FIRE -> [kind |-> "dict", doc |-> [type |-> "fire", message |-> "smoke detected"]]
      [] raw = P_BURGLAR -> [kind |-> "dict", doc |-> [type |-> "burglar", message |-> "motion"]]
      [] raw = P_LIST -> [kind |-> "list"]
      [] OTHER -> [kind |-> "error"]

\* ---- dict and collection operations -------------------------------------
Has(d, k) == k \in DOMAIN d

\* d[k] = v on a dict: adds the key or replaces its value.
SetItem(d, k, v) == [f \in DOMAIN d \cup {k} |-> IF f = k THEN v ELSE d[f]]

\* payload['timestamp'] = timestamp (line 70): the receipt time replaces any
\* timestamp the payload brought.
StampKeepsClientValue(payload, timestamp) ==
    IF Has(payload, "timestamp") THEN payload ELSE SetItem(payload, "timestamp", timestamp)

Stamp(payload, timestamp) == SetItem(payload, "timestamp", timestamp)

\* The {'_id': 0} projection of find / find_one.
Project(d) == [f \in DOMAIN d \ {"_id"} |-> d[f]]

Ids(coll) == {coll[i]["_id"] : i \in 1..Len(coll)}

\* A write that replaces the record holding the document's _id (what
\* replace_one(..., upsert=True) would do).
insert_or_replace(coll, doc) ==
    IF Has(doc, "_id") /\ doc["_id"] \in Ids(coll)
    THEN [ok |-> TRUE,
          coll |-> [i \in 1..Len(coll) |-> IF coll[i]["_id"] = doc["_id"] THEN doc ELSE coll[i]]]
    ELSE [ok |-> TRUE,
          coll |-> Append(coll, IF Has(doc, "_id") THEN doc
                                ELSE SetItem(doc, "_id", <<"oid", Len(coll) + 1>>))]

\* Collection.insert_one(doc): a document without _id gets a fresh ObjectId;
\* one whose _id is already in the collection is rejected (DuplicateKeyError).
insert_one(coll, doc) ==
    IF Has(doc, "_id")
    THEN IF doc["_id"] \in Ids(coll)
         THEN [ok |-> FALSE, coll |-> coll]
         ELSE [ok |-> TRUE, coll |-> Append(coll, doc)]
    ELSE [ok |-> TRUE, coll |-> Append(coll, SetItem(doc, "_id", <<"oid", Len(coll) + 1>>))]

\* ---- MQTT callbacks -----------------------------------------------------
\* on_connect (lines 53-61), called with the broker's answer to a connection
\* attempt: rc = 0 subscribes to the three topics, any other rc only logs.
\* No disconnection is modelled: once subscribed, the connection stays.
on_connect(rc) ==
    /\ listener = "running"
    /\ subscriptions # Topics
    /\ subscriptions' = IF rc = 0 THEN subscriptions \cup Topics ELSE subscriptions
    /\ UNCHANGED <<clock, listener, sensor_readings, status_logs, alerts, req, event>>

\* The try block of on_message (lines 65-82) on the three collections:
\* the collections afterwards and whether an exception was raised.
Process(topic, raw, now, s, st, a) ==
    LET payload == json_loads(raw)
        same == [raised |-> TRUE, s |-> s, st |-> st, a |-> a]
    IN  IF payload.kind = "error" THEN same           \* json.loads raises
        ELSE IF payload.kind # "dict" THEN same       \* payload['timestamp'] = ... raises TypeError
        ELSE LET doc == Stamp(payload.doc, now)
                 r == insert_one(IF topic = TOPIC_SENSORS THEN s
                                 ELSE IF topic = TOPIC_STATUS THEN st ELSE a, doc)
             IN  IF topic = TOPIC_SENSORS
                 THEN [raised |-> ~r.ok, s |-> r.coll, st |-> st, a |-> a]
                 ELSE IF topic = TOPIC_STATUS
                 THEN [raised |-> ~r.ok, s |-> s, st |-> r.coll, a |-> a]
                 ELSE IF topic = TOPIC_ALERT
                 THEN [raised |-> ~r.ok, s |-> s, st |-> st, a |-> r.coll]
                 ELSE [raised |-> FALSE, s |-> s, st |-> st, a |-> a]

\* Without the except clause the exception leaves the callback and ends
\* loop_forever().
AfterExceptionUncaught == "dead"

\* What an exception raised in the try block does to the listener: the
\* except clause (lines 84-85) logs it and the network loop goes on.
AfterException == "running"

\* on_message (lines 63-85), for a message on a subscribed topic.
on_message(topic, raw) ==
    /\ listener = "running"
    /\ topic \in subscriptions
    /\ Len(sensor_readings) + Len(status_logs) + Len(alerts) < MaxRecords
    /\ LET r == Process(topic, raw, clock, sensor_readings, status_logs, alerts)
       IN  /\ sensor_readings' = r.s
           /\ status_logs' = r.st
           /\ alerts' = r.a
           /\ listener' = IF r.raised THEN AfterException ELSE listener
           /\ event' = [op |-> "on_message", topic |-> topic, payload |-> raw,
                        log |-> IF r.raised THEN "error" ELSE "saved"]
    /\ UNCHANGED <<clock, subscriptions, req>>

\* The wall clock advances.
Tick ==
    /\ clock < MaxClock
    /\ clock' = clock + 1
    /\ UNCHANGED <<subscriptions, listener, sensor_readings, status_logs, alerts, req, event>>

\* ---- store reads ----------------------------------------------------------
\* The documents of coll matching {'timestamp': {'$gte': since}}, in insertion order.
Matching(coll, since) ==
    LET Test(d) == d["timestamp"] >= since IN SelectSeq(coll, Test)

Orderings(n) ==
    {p \in [1..n -> 1..n] : \A i, j \in 1..n : i # j => p[i] # p[j]}

\* A cursor without the sort: the documents in insertion order.
Unsorted(docs) == {docs}

\* Cursor.sort('timestamp', -1): every order of the documents in which the
\* timestamps do not increase; the store does not fix the order of documents
\* with equal timestamps.
SortDescending(docs) ==
    {[i \in 1..Len(docs) |-> docs[p[i]]] : p \in
        {q \in Orderings(Len(docs)) :
            \A i \in 1..(Len(docs) - 1) :
                docs[q[i]]["timestamp"] >= docs[q[i + 1]]["timestamp"]}}

Abs(n) == IF n < 0 THEN 0 - n ELSE n
Min(a, b) == IF a < b THEN a ELSE b

\* Cursor.limit(limit): 0 is no limit, a negative limit returns up to |limit|
\* documents (in a single batch).
Limit(docs, limit) ==
    IF limit = 0 THEN docs ELSE SubSeq(docs, 1, Min(Abs(limit), Len(docs)))

\* datetime.isoformat(): the timestamp as text.
isoformat(t) == <<"iso", t>>

\* The loop of lines 122-123 / 154-155 with the {'_id': 0} projection of the query.
Rendered(docs) ==
    [i \in 1..Len(docs) |-> SetItem(Project(docs[i]), "timestamp", isoformat(docs[i]["timestamp"]))]

\* list(coll.find({'timestamp': {'$gte': since}}, {'_id': 0}).sort('timestamp', -1).limit(limit)),
\* then rendered: the lists the route may return.
FindWindow(coll, since, limit) ==
    {Rendered(Limit(sorted, limit)) : sorted \in SortDescending(Matching(coll, since))}

\* coll.find_one({}, {'_id': 0}, sort=[('timestamp', -1)]): a document with the
\* greatest timestamp, rendered; the empty set when the collection is empty.
FindLatest(coll) ==
    {SetItem(Project(coll[i]), "timestamp", isoformat(coll[i]["timestamp"])) :
        i \in {k \in 1..Len(coll) : \A j \in 1..Len(coll) : coll[k]["timestamp"] >= coll[j]["timestamp"]}}

\* coll.count_documents({'timestamp': {'$gte': since}}).
CountSince(coll, since) == Len(Matching(coll, since))

\* alerts.count_documents({'timestamp': {'$gte': since}, 'type': type}).
CountType(coll, since, type) ==
    LET Test(d) == Has(d, "type") /\ d["type"] = type IN Len(SelectSeq(Matching(coll, since), Test))

\* ---- the $group stage ------------------------------------------------------
RECURSIVE SumField(_, _)
SumField(docs, k) ==
    IF docs = <<>> THEN 0
    ELSE (IF Has(Head(docs), k) THEN Head(docs)[k] ELSE 0) + SumField(Tail(docs), k)

RECURSIVE MaxField(_, _)
MaxField(docs, k) ==
    IF docs = <<>> THEN 0
    ELSE IF ~Has(Head(docs), k) THEN MaxField(Tail(docs), k)
    ELSE LET Test(d) == Has(d, k)
         IN  IF SelectSeq(Tail(docs), Test) = <<>> THEN Head(docs)[k]
             ELSE IF Head(docs)[k] >= MaxField(Tail(docs), k) THEN Head(docs)[k]
             ELSE MaxField(Tail(docs), k)

CountField(docs, k) == LET Test(d) == Has(d, k) IN Len(SelectSeq(docs, Test))

\* {'$avg': '$k'}: the mean of the numeric values of k, null when no document has one.
\* The mean is kept as the fraction sum / n.
Avg(docs, k) ==
    [null |-> CountField(docs, k) = 0, sum |-> SumField(docs, k), n |-> CountField(docs, k)]

\* {'$max': '$k'}: the greatest value of k, null when no document has one.
Max(docs, k) ==
    [null |-> CountField(docs, k) = 0, sum |-> MaxField(docs, k), n |-> 1]

\* list(sensor_readings.aggregate(pipeline)) (lines 186-196): no group for an
\* empty match, else the one group.
Aggregate(coll, since) ==
    LET m == Matching(coll, since)
    IN  IF m = <<>> THEN <<>>
        ELSE <<[avg_temp |-> Avg(m, "temp"), max_temp |-> Max(m, "temp"),
                avg_humidity |-> Avg(m, "humidity")]>>

\* round(x, 1) of the fraction sum / n, in tenths: to the nearest tenth, a tie to
\* the even one.
Round1(x) ==
    LET q == (10 * x.sum) \div x.n
        r == (10 * x.sum) % x.n
    IN  IF 2 * r < x.n THEN q
        ELSE IF 2 * r > x.n THEN q + 1
        ELSE IF q % 2 = 0 THEN q ELSE q + 1

\* round(agg_result[0][k], 1) without the `if agg_result` guard: IndexError on
\* an empty result.
StatFieldUnguarded(agg_result, k) ==
    IF agg_result = <<>> THEN [raised |-> TRUE, value |-> 0]
    ELSE IF agg_result[1][k].null THEN [raised |-> TRUE, value |-> 0]
    ELSE [raised |-> FALSE, value |-> Round1(agg_result[1][k])]

\* round(agg_result[0][k], 1) if agg_result else 0 (lines 203-205): the value,
\* or TypeError when the aggregate is null.
StatField(agg_result, k) ==
    IF agg_result = <<>> THEN [raised |-> FALSE, value |-> 0]
    ELSE IF agg_result[1][k].null THEN [raised |-> TRUE, value |-> 0]
    ELSE [raised |-> FALSE, value |-> Round1(agg_result[1][k])]

\* ---- Flask routes ----------------------------------------------------------
\* request.args values the client sends.
Hours == {0, 1}
Limits == {0, 1, 2}

Idle == [pc |-> "idle"]

\* timedelta(hours=hours), in ticks.
timedelta(hours) == hours * TicksPerHour

\* /api/health (lines 99-106).
health_check ==
    /\ req = Idle
    /\ event' = [op |-> "health_check", status |-> 200,
                 body |-> [status |-> "ok", mqtt_broker |-> MQTT_BROKER, mongo_db |-> MONGO_DB]]
    /\ UNCHANGED <<clock, subscriptions, listener, sensor_readings, status_logs, alerts, req>>

\* /api/sensors (lines 108-125).
get_sensors(hours, limit) ==
    /\ req = Idle
    /\ \E readings \in FindWindow(sensor_readings, clock - timedelta(hours), limit) :
          event' = [op |-> "get_sensors", hours |-> hours, limit |-> limit, now |-> clock,
                    status |-> 200, body |-> readings]
    /\ UNCHANGED <<clock, subscriptions, listener, sensor_readings, status_logs, alerts, req>>

\* /api/sensors/latest (lines 127-139).
get_latest_sensor ==
    /\ req = Idle
    /\ IF sensor_readings = <<>>
       THEN event' = [op |-> "get_latest_sensor", status |-> 200, found |-> FALSE]
       ELSE \E reading \in FindLatest(sensor_readings) :
               event' = [op |-> "get_latest_sensor", status |-> 200, found |-> TRUE, body |-> reading]
    /\ UNCHANGED <<clock, subscriptions, listener, sensor_readings, status_logs, alerts, req>>

\* /api/alerts (lines 141-157).
get_alerts(hours, limit) ==
    /\ req = Idle
    /\ \E alert_list \in FindWindow(alerts, clock - timedelta(hours), limit) :
          event' = [op |-> "get_alerts", hours |-> hours, limit |-> limit, now |-> clock,
                    status |-> 200, body |-> alert_list]
    /\ UNCHANGED <<clock, subscriptions, listener, sensor_readings, status_logs, alerts, req>>

\* /api/status (lines 159-171).
get_status ==
    /\ req = Idle
    /\ IF status_logs = <<>>
       THEN event' = [op |-> "get_status", status |-> 200, found |-> FALSE]
       ELSE \E status \in FindLatest(status_logs) :
               event' = [op |-> "get_status", status |-> 200, found |-> TRUE, body |-> status]
    /\ UNCHANGED <<clock, subscriptions, listener, sensor_readings, status_logs, alerts, req>>

\* /api/stats (lines 173-208), one step per store operation.
\* Lines 176-180: the window's lower bound is fixed once, then the first count.
\* The client now waits for the response (status 0).
get_stats_count_readings(hours) ==
    /\ req = Idle
    /\ req' = [pc |-> "count_alerts", hours |-> hours, now |-> clock,
               since |-> clock - timedelta(hours),
               total_readings |-> CountSince(sensor_readings, clock - timedelta(hours)),
               total_alerts |-> 0, burglar_alerts |-> 0, fire_alerts |-> 0]
    /\ event' = [op |-> "get_stats", status |-> 0]
    /\ UNCHANGED <<clock, subscriptions, listener, sensor_readings, status_logs, alerts>>

\* Line 181.
get_stats_count_alerts ==
    /\ req.pc = "count_alerts"
    /\ req' = [req EXCEPT !.pc = "count_burglar",
                          !.total_alerts = CountSince(alerts, req.since)]
    /\ UNCHANGED <<clock, subscriptions, listener, sensor_readings, status_logs, alerts, event>>

\* Line 182.
get_stats_count_burglar ==
    /\ req.pc = "count_burglar"
    /\ req' = [req EXCEPT !.pc = "count_fire",
                          !.burglar_alerts = CountType(alerts, req.since, "burglar")]
    /\ UNCHANGED <<clock, subscriptions, listener, sensor_readings, status_logs, alerts, event>>

\* Line 183.
get_stats_count_fire ==
    /\ req.pc = "count_fire"
    /\ req' = [req EXCEPT !.pc = "aggregate",
                          !.fire_alerts = CountType(alerts, req.since, "fire")]
    /\ UNCHANGED <<clock, subscriptions, listener, sensor_readings, status_logs, alerts, event>>

\* The response of lines 198-208 from the counts read and the aggregation
\* result: the stats object, or Flask's 500 when round() raises.
StatsResponse(r, agg_result) ==
    LET avg_temp == StatField(agg_result, "avg_temp")
        max_temp == StatField(agg_result, "max_temp")
        avg_humidity == StatField(agg_result, "avg_humidity")
    IN  IF avg_temp.raised \/ max_temp.raised \/ avg_humidity.raised
        THEN [op |-> "get_stats", hours |-> r.hours, now |-> r.now, status |-> 500]
        ELSE [op |-> "get_stats", hours |-> r.hours, now |-> r.now, status |-> 200,
              body |-> [total_readings |-> r.total_readings,
                        total_alerts |-> r.total_alerts,
                        burglar_alerts |-> r.burglar_alerts,
                        fire_alerts |-> r.fire_alerts,
                        avg_temp |-> avg_temp.value,
                        max_temp |-> max_temp.value,
                        avg_humidity |-> avg_humidity.value]]

\* Lines 186-208: the aggregation and the response.
get_stats_aggregate ==
    /\ req.pc = "aggregate"
    /\ event' = StatsResponse(req, Aggregate(sensor_readings, req.since))
    /\ req' = Idle
    /\ UNCHANGED <<clock, subscriptions, listener, sensor_readings, status_logs, alerts>>

Init ==
    /\ clock = 0
    /\ subscriptions = {}
    /\ listener = "running"
    /\ sensor_readings = <<>>
    /\ status_logs = <<>>
    /\ alerts = <<>>
    /\ req = Idle
    /\ event = [op |-> "none"]

Next ==
    \/ Tick
    \/ \E rc \in {0, 5} : on_connect(rc)
    \/ \E m \in Inbound : on_message(m[1], m[2])
    \/ health_check
    \/ \E hours \in Hours, limit \in Limits : get_sensors(hours, limit)
    \/ get_latest_sensor
    \/ \E hours \in Hours, limit \in Limits : get_alerts(hours, limit)
    \/ get_status
    \/ \E hours \in Hours : get_stats_count_readings(hours)
    \/ get_stats_count_alerts
    \/ get_stats_count_burglar
    \/ get_stats_count_fire
    \/ get_stats_aggregate

Spec == Init /\ [][Next]_vars

\* ---- vocabulary of the properties ------------------------------------------
\* The payload decodes to a structured (key-value) document.
WellFormed(raw) == json_loads(raw).kind = "dict"

\* datetime.fromisoformat of a rendered timestamp.
FromIso(text) == text[2]

IsPrefix(a, b) == Len(a) <= Len(b) /\ SubSeq(b, 1, Len(a)) = a

CollectionOf(topic) ==
    IF topic = TOPIC_SENSORS THEN sensor_readings
    ELSE IF topic = TOPIC_STATUS THEN status_logs ELSE alerts

\* The step is a run of on_message (the handler that writes a log line and
\* leaves the clock, the subscriptions and the request in flight alone).
IsMessageStep ==
    /\ event'.op = "on_message"
    /\ clock' = clock /\ req' = req /\ subscriptions' = subscriptions

\* The step adds exactly one record, to the collection of `topic`, and keeps
\* every other record.
AddsOneTo(topic) ==
    /\ Len(sensor_readings') = Len(sensor_readings) + (IF topic = TOPIC_SENSORS THEN 1 ELSE 0)
    /\ Len(status_logs') = Len(status_logs) + (IF topic = TOPIC_STATUS THEN 1 ELSE 0)
    /\ Len(alerts') = Len(alerts) + (IF topic = TOPIC_ALERT THEN 1 ELSE 0)
    /\ IsPrefix(sensor_readings, sensor_readings')
    /\ IsPrefix(status_logs, status_logs')
    /\ IsPrefix(alerts, alerts')

\* The store refuses the document of `raw` in the collection of `topic`: it
\* carries an _id that a record of the collection already has.
KeyTaken(topic, raw) ==
    /\ Has(json_loads(raw).doc, "_id")
    /\ json_loads(raw).doc["_id"] \in Ids(CollectionOf(topic))

\* ---- C1 ----------------------------------------------------------------------
\* C1: a message whose payload does not decode to a structured document adds
\* no record to any of the three collections and leaves the listener running
\* and subscribed to the three topics; the well-formed message handled next is
\* ingested into the collection of its topic, as it is without the malformed
\* message before it (the store refuses a document whose _id it already holds
\* either way).
C1_MalformedDiscarded ==
    [][/\ (IsMessageStep /\ ~WellFormed(event'.payload)) =>
            /\ store' = store
            /\ listener' = "running"
            /\ subscriptions' = Topics
            /\ event'.log = "error"
       /\ (/\ event.op = "on_message" /\ ~WellFormed(event.payload)
           /\ IsMessageStep /\ WellFormed(event'.payload)
           /\ ~KeyTaken(event'.topic, event'.payload)) =>
            /\ AddsOneTo(event'.topic)
            /\ event'.log = "saved"]_vars

\* A malformed message was handled while records were stored and room for a
\* further message is left.
C1_Witness ==
    /\ event.op = "on_message" /\ ~WellFormed(event.payload) /\ event.log = "error"
    /\ listener = "running"
    /\ Len(sensor_readings) + Len(status_logs) + Len(alerts) = 1

\* ---- C2 ----------------------------------------------------------------------
AllRecords ==
    {sensor_readings[i] : i \in 1..Len(sensor_readings)}
    \cup {status_logs[i] : i \in 1..Len(status_logs)}
    \cup {alerts[i] : i \in 1..Len(alerts)}

NewestOf(coll) == coll[Len(coll)]

\* C2: every record of the three collections has a timestamp field, whose value
\* is a time read from the server clock (never the client's value), and a record
\* gets the clock's value of the moment on_message stores it.
C2_ServerTimestamp ==
    /\ [](\A r \in AllRecords : Has(r, "timestamp") /\ r["timestamp"] \in 0..clock)
    /\ [][/\ Len(sensor_readings') > Len(sensor_readings) =>
                NewestOf(sensor_readings')["timestamp"] = clock
          /\ Len(status_logs') > Len(status_logs) =>
                NewestOf(status_logs')["timestamp"] = clock
          /\ Len(alerts') > Len(alerts) =>
                NewestOf(alerts')["timestamp"] = clock]_vars

\* The message whose payload carries its own timestamp was stored, after the
\* clock had moved.
C2_Witness ==
    /\ event = [op |-> "on_message", topic |-> TOPIC_SENSORS, payload |-> P_STAMPED, log |-> "saved"]
    /\ clock > 0
    /\ NewestOf(sensor_readings)["timestamp"] = clock

\* ---- C3 ----------------------------------------------------------------------
\* C3: every well-formed message on one of the three topics adds exactly one
\* record to the collection of its topic and leaves the other two unchanged,
\* also when an identical payload was stored before.
C3_EveryMessageInserted ==
    [][(IsMessageStep /\ WellFormed(event'.payload)) => AddsOneTo(event'.topic)]_vars

\* ---- C4 ----------------------------------------------------------------------
\* C4: /api/sensors and /api/alerts return at most `limit` records.
C4_AtMostLimit ==
    event.op \in {"get_sensors", "get_alerts"} => Len(event.body) <= event.limit

\* ---- C5 ----------------------------------------------------------------------
InWindow(e) ==
    \A i \in 1..Len(e.body) :
        FromIso(e.body[i]["timestamp"]) >= e.now - e.hours * TicksPerHour

\* C5 as stated: every returned record is in the window and each record's
\* timestamp is strictly greater than that of the record after it.
C5_StrictlyNewestFirst ==
    event.op \in {"get_sensors", "get_alerts"} =>
        /\ InWindow(event)
        /\ \A i \in 1..(Len(event.body) - 1) :
              FromIso(event.body[i]["timestamp"]) > FromIso(event.body[i + 1]["timestamp"])

\* C5 (amended): every record /api/sensors and /api/alerts return has a
\* timestamp >= request time - hours, and no record's timestamp is smaller than
\* that of the record after it.
C5_NewestFirst ==
    event.op \in {"get_sensors", "get_alerts"} =>
        /\ InWindow(event)
        /\ \A i \in 1..(Len(event.body) - 1) :
              FromIso(event.body[i]["timestamp"]) >= FromIso(event.body[i + 1]["timestamp"])

\* A list of two readings with different timestamps was returned.
C5_Witness ==
    /\ event.op = "get_sensors"
    /\ Len(event.body) = 2
    /\ FromIso(event.body[1]["timestamp"]) > FromIso(event.body[2]["timestamp"])

\* ---- C6 ----------------------------------------------------------------------
\* C6: when a sensor message with temp and humidity has been ingested and
\* /api/sensors/latest is the next request answered, with no message handled
\* in between, the response is the record of that message.
C6_LatestIsLastIngested ==
    [][(/\ event.op = "on_message" /\ event.log = "saved" /\ event.topic = TOPIC_SENSORS
        /\ Has(json_loads(event.payload).doc, "temp")
        /\ Has(json_loads(event.payload).doc, "humidity")
        /\ event'.op = "get_latest_sensor") =>
            /\ event'.found
            /\ event'.body["temp"] = json_loads(event.payload).doc["temp"]
            /\ event'.body["humidity"] = json_loads(event.payload).doc["humidity"]
            /\ FromIso(event'.body["timestamp"]) = NewestOf(sensor_readings)["timestamp"]]_vars

\* ---- C7 ----------------------------------------------------------------------
\* No reading at or after the window's lower bound is stored (no stored
\* timestamp is later than the clock).
NoReadingInWindow(e) ==
    \A i \in 1..Len(sensor_readings) :
        sensor_readings[i]["timestamp"] < e.now - e.hours * TicksPerHour

C8_AppendOnly ==
    [][/\ IsPrefix(sensor_readings, sensor_readings')
       /\ IsPrefix(status_logs, status_logs')
       /\ IsPrefix(alerts, alerts')
       /\ store' # store =>
            /\ IsMessageStep /\ event'.log = "saved"
            /\ AddsOneTo(event'.topic)
       /\ (event'.op # "on_message" \/ req' # req) => store' = store]_vars

\* A route answered over a store that holds a status record and a reading.
C8_Witness ==
    /\ event.op = "get_status" /\ event.found
    /\ Len(status_logs) = 1
    /\ Len(sensor_readings) = 1

\* ---- C9 ----------------------------------------------------------------------
\* C9: in every /api/stats response, burglar_alerts + fire_alerts <= total_alerts.
C9_TypedAlertsWithinTotal ==
    (event.op = "get_stats" /\ event.status = 200) =>
        event.body.burglar_alerts + event.body.fire_alerts <= event.body.total_alerts

\* ---- C10 ---------------------------------------------------------------------
\* C10: /api/stats never answers with a server error.
C10_StatsNeverFails ==
    event.op = "get_stats" => event.status # 500
====
